---- MODULE Spec2Model ----
(***************************************************************************)
(* Weighted consistent hashing (package main of                            *)
(* _examples/encapsulation_consistent_failed_example.go).                  *)
(*                                                                         *)
(* A Consistent wraps the unweighted hash ring and keeps a weight table    *)
(* and a running total.  A member of weight w is planted on the ring as w  *)
(* virtual members named by weightedMember.String.                         *)
(*                                                                         *)
(* Go strings are modelled as sequences of one-character strings, so that  *)
(* fmt.Sprintf("%s#%d", name, i) is computed character by character and    *)
(* two identifiers are equal exactly when their characters are.            *)
(***************************************************************************)
EXTENDS Integers, Sequences, FiniteSets, TLC

VARIABLES ring, weights, totalWeight, supplied, op, ret, shared, call

vars == <<ring, weights, totalWeight, supplied, op, ret, shared, call>>

(***************************************************************************)
(* Bounds of the model.                                                    *)
(***************************************************************************)
\* largest weight a caller supplies
MaxWeight == 3
\* longest member list handed to New
MaxMembers == 2

\* member names callers use; the last one contains the suffix delimiter
Names == { <<"A">>, <<"B">>, <<"B", "#", "0">> }
\* weights callers supply: a negative one, zero (both coerced), one (the bare
\* name), two and the largest (suffixed identifiers)
Weights == { 0 - 1, 0, 1, 2, MaxWeight }
\* keys callers look up
Keys == { <<"A">>, <<"B", "#", "1">>, <<"k">> }

\* a caller's Member: String() and Weight()
Members == [name : Names, weight : Weights]

RECURSIVE SeqsUpTo(_, _)
SeqsUpTo(S, n) ==
    IF n = 0 THEN { <<>> }
    ELSE LET shorter == SeqsUpTo(S, n - 1)
         IN  shorter \cup { Append(s, x) : s \in { t \in shorter : Len(t) = n - 1 }, x \in S }

\* the member lists handed to New
MemberLists == SeqsUpTo(Members, MaxMembers)

(***************************************************************************)
(* Strings.                                                                *)
(***************************************************************************)
DigitChar == <<"0", "1", "2", "3", "4", "5", "6", "7", "8", "9">>

\* %d of a non-negative int
RECURSIVE FormatInt(_)
FormatInt(i) ==
    IF i < 10 THEN << DigitChar[i + 1] >>
    ELSE FormatInt(i \div 10) \o << DigitChar[(i % 10) + 1] >>

\* fmt.Sprintf("%s#%d", name, i)
Sprintf(name, i) == name \o <<"#">> \o FormatInt(i)

(***************************************************************************)
(* weightedMember and originalMember.                                      *)
(***************************************************************************)
weightedMember(name, index, weight) ==
    [name |-> name, index |-> index, weight |-> weight]

\* a weightedMember.String that suffixes every virtual member
StringAlwaysSuffixed(w) == Sprintf(w.name, w.index)

\* func (w *weightedMember) String() string
String(w) ==
    IF w.weight = 1 THEN w.name
    ELSE Sprintf(w.name, w.index)

\* the value LocateKey hands back
Nil == [kind |-> "nil"]
originalMember(name) == [kind |-> "member", name |-> name]

(***************************************************************************)
(* The underlying ring (the embedded *consistent.Consistent).  It holds    *)
(* one Member per identifier (Member.String()).  Every member it is handed *)
(* is a *weightedMember, of which only String() and the name field are     *)
(* ever read again: ring is a function from the identifiers held to the    *)
(* name field of the weightedMember stored under each.                     *)
(***************************************************************************)
\* position of a string on the ring: an injective base-16 reading of it
CharCode(ch) ==
    CASE ch = "#" -> 1
      [] ch = "0" -> 2
      [] ch = "1" -> 3
      [] ch = "2" -> 4
      [] ch = "3" -> 5
      [] ch = "4" -> 6
      [] ch = "5" -> 7
      [] ch = "6" -> 8
      [] ch = "7" -> 9
      [] ch = "8" -> 10
      [] ch = "9" -> 11
      [] ch = "A" -> 12
      [] ch = "B" -> 13
      [] OTHER -> 14

RECURSIVE Hash(_)
Hash(s) ==
    IF Len(s) = 0 THEN 0
    ELSE Hash(SubSeq(s, 1, Len(s) - 1)) * 16 + CharCode(s[Len(s)])

\* consistent.New(members, config): bulk load.  When two members of the list
\* have the same String(), the ring keeps one of them.
RECURSIVE RingLoad(_, _, _)
RingLoad(baseMembers, k, r) ==
    IF k > Len(baseMembers) THEN { r }
    ELSE LET member == baseMembers[k]
             id     == String(member)
             put    == [x \in DOMAIN r \cup { id } |->
                          IF x = id THEN member.name ELSE r[x]]
         IN  IF id \in DOMAIN r
             THEN RingLoad(baseMembers, k + 1, r) \cup RingLoad(baseMembers, k + 1, put)
             ELSE RingLoad(baseMembers, k + 1, put)

RingNew(baseMembers) == RingLoad(baseMembers, 1, [x \in {} |-> 0])

\* (*consistent.Consistent).Add(member): nothing happens if the identifier is held
RingAdd(r, member) ==
    IF String(member) \in DOMAIN r THEN r
    ELSE [id \in DOMAIN r \cup { String(member) } |->
            IF id \in DOMAIN r THEN r[id] ELSE member.name]

\* (*consistent.Consistent).Remove(name): nothing happens if the identifier is absent
RingRemove(r, id) == [x \in DOMAIN r \ { id } |-> r[x]]

\* (*consistent.Consistent).LocateKey(key): the member whose identifier is the
\* clockwise successor of the key (its name field, and its String() as id),
\* nil on an empty ring
RingLocateKey(r, key) ==
    IF DOMAIN r = {} THEN Nil
    ELSE LET h     == Hash(key)
             pos   == [id \in DOMAIN r |-> Hash(id)]
             after == { id \in DOMAIN r : pos[id] >= h }
             cand  == IF after # {} THEN after ELSE DOMAIN r
             owner == CHOOSE id \in cand : \A o \in cand : pos[id] <= pos[o]
         IN  [kind |-> "weightedMember", name |-> r[owner], id |-> owner]

(***************************************************************************)
(* Consistent: the ring, the weight table and the running total.           *)
(***************************************************************************)
Consistent(r, w, t) == [ring |-> r, weights |-> w, totalWeight |-> t]

\* the Consistent the variables hold
c == Consistent(ring, weights, totalWeight)

EmptyMap == [x \in {} |-> 0]

\* m[k] = v on a Go map
MapSet(m, k, v) == [x \in DOMAIN m \cup { k } |-> IF x = k THEN v ELSE m[x]]

\* delete(m, k) on a Go map
MapDelete(m, k) == [x \in DOMAIN m \ { k } |-> m[x]]

\* an effective weight that keeps the supplied weight whatever it is
EffectiveWeightUnchecked(weight) == weight

\* weight := member.Weight(); if weight <= 0 { weight = 1 }
EffectiveWeight(weight) == IF weight <= 0 THEN 1 ELSE weight

(***************************************************************************)
(* New.                                                                    *)
(***************************************************************************)
\* for i := 0; i < weight; i++ { baseMembers = append(baseMembers, virtualMember) }
RECURSIVE AppendVirtualMembers(_, _, _, _)
AppendVirtualMembers(baseMembers, name, weight, i) ==
    IF i < weight
    THEN AppendVirtualMembers(Append(baseMembers, weightedMember(name, i, weight)),
                              name, weight, i + 1)
    ELSE baseMembers

\* for _, member := range members { ... }: the locals after the members from k on
RECURSIVE NewLoop(_, _, _)
NewLoop(members, k, locals) ==
    IF k > Len(members) THEN locals
    ELSE LET member == members[k]
             weight == EffectiveWeight(member.weight)
         IN  NewLoop(members, k + 1,
                     [baseMembers |-> AppendVirtualMembers(locals.baseMembers,
                                                           member.name, weight, 0),
                      weights     |-> MapSet(locals.weights, member.name, weight),
                      totalWeight |-> locals.totalWeight + weight])

\* the locals of New when its loop is over
NewLocals(members) ==
    NewLoop(members, 1, [baseMembers |-> <<>>, weights |-> EmptyMap, totalWeight |-> 0])

\* func New(members []Member, config Config) *Consistent: the instances it may return
New(members) ==
    LET locals == NewLocals(members)
    IN  { Consistent(r, locals.weights, locals.totalWeight) :
            r \in RingNew(locals.baseMembers) }

(***************************************************************************)
(* Remove.                                                                 *)
(***************************************************************************)
\* a loop of Remove that suffixes every virtual name
RECURSIVE RemoveLoopAlwaysSuffixed(_, _, _, _)
RemoveLoopAlwaysSuffixed(acc, name, weight, i) ==
    IF i < weight
    THEN LET virtualName == Sprintf(name, i)
         IN  RemoveLoopAlwaysSuffixed([ring    |-> RingRemove(acc.ring, virtualName),
                                       removed |-> Append(acc.removed, virtualName)],
                                      name, weight, i + 1)
    ELSE acc

\* for i := 0; i < weight; i++ { ...; c.Consistent.Remove(virtualName) }
\* acc.ring is the ring so far, acc.removed the identifiers handed to the ring's Remove
RECURSIVE RemoveLoop(_, _, _, _)
RemoveLoop(acc, name, weight, i) ==
    IF i < weight
    THEN LET virtualName == IF weight > 1 THEN Sprintf(name, i) ELSE name
         IN  RemoveLoop([ring    |-> RingRemove(acc.ring, virtualName),
                         removed |-> Append(acc.removed, virtualName)],
                        name, weight, i + 1)
    ELSE acc

\* a Remove that takes an unknown name for a member of weight 1
RemoveDefaultWeight(s, name) ==
    LET weight == IF name \in DOMAIN s.weights THEN s.weights[name] ELSE 1
    IN  Consistent(RemoveLoop([ring |-> s.ring, removed |-> <<>>], name, weight, 0).ring,
                   MapDelete(s.weights, name),
                   s.totalWeight - weight)

\* a Remove that leaves the entry in the weight table
RemoveKeepEntry(s, name) ==
    IF name \notin DOMAIN s.weights THEN s
    ELSE LET weight == s.weights[name]
         IN  Consistent(RemoveLoop([ring |-> s.ring, removed |-> <<>>], name, weight, 0).ring,
                        s.weights,
                        s.totalWeight - weight)

\* func (c *Consistent) Remove(name string): the instance afterwards (.c) and the
\* identifiers it handed to the ring's Remove (.removed)
RemoveRun(s, name) ==
    IF name \notin DOMAIN s.weights THEN [c |-> s, removed |-> <<>>]
    ELSE LET weight == s.weights[name]
             loop   == RemoveLoop([ring |-> s.ring, removed |-> <<>>], name, weight, 0)
         IN  [c       |-> Consistent(loop.ring,
                                     MapDelete(s.weights, name),
                                     s.totalWeight - weight),
              removed |-> loop.removed]

RemoveFrom(s, name) == RemoveRun(s, name).c

(***************************************************************************)
(* Add.                                                                    *)
(***************************************************************************)
\* for i := 0; i < weight; i++ { ...; c.Consistent.Add(virtualMember) }
\* acc.ring is the ring so far, acc.added the identifiers handed to the ring's Add
RECURSIVE AddLoop(_, _, _, _)
AddLoop(acc, name, weight, i) ==
    IF i < weight
    THEN LET virtualMember == weightedMember(name, i, weight)
         IN  AddLoop([ring  |-> RingAdd(acc.ring, virtualMember),
                      added |-> Append(acc.added, String(virtualMember))],
                     name, weight, i + 1)
    ELSE acc

\* func (c *Consistent) Add(member Member): the instance afterwards (.c) and the
\* identifiers it handed to the ring's Add (.added)
AddRun(s, member) ==
    LET weight  == EffectiveWeight(member.weight)
        removed == IF member.name \in DOMAIN s.weights
                   THEN RemoveFrom(s, member.name)
                   ELSE s
        loop    == AddLoop([ring |-> removed.ring, added |-> <<>>],
                           member.name, weight, 0)
    IN  [c     |-> Consistent(loop.ring,
                              MapSet(removed.weights, member.name, weight),
                              removed.totalWeight + weight),
         added |-> loop.added]

AddTo(s, member) == AddRun(s, member).c

(***************************************************************************)
(* LocateKey, GetWeights, GetTotalWeight.                                  *)
(***************************************************************************)
\* a LocateKey that hands back the located virtual member's own String()
LocateKeyVirtualName(s, key) ==
    LET member == RingLocateKey(s.ring, key)
    IN  IF member = Nil THEN Nil
        ELSE originalMember(member.id)

\* a LocateKey that only recognises suffixed virtual members
LocateKeySuffixedOnly(s, key) ==
    LET member == RingLocateKey(s.ring, key)
    IN  IF member = Nil THEN Nil
        ELSE IF member.id # member.name
             THEN originalMember(member.name)
             ELSE Nil

\* func (c *Consistent) LocateKey(key []byte) consistent.Member: what it returns
LocateKeyIn(s, key) ==
    LET member == RingLocateKey(s.ring, key)
    IN  IF member = Nil THEN Nil
        ELSE IF member.kind = "weightedMember"
             THEN originalMember(member.name)
             ELSE member

\* func (c *Consistent) GetWeights() map[string]int: the copy it returns
RECURSIVE CopyMap(_, _)
CopyMap(m, result) ==
    IF DOMAIN m = DOMAIN result THEN result
    ELSE LET name == CHOOSE x \in DOMAIN m \ DOMAIN result : TRUE
         IN  CopyMap(m, MapSet(result, name, m[name]))

GetWeightsOf(s) == CopyMap(s.weights, EmptyMap)

\* func (c *Consistent) GetTotalWeight() int
GetTotalWeightOf(s) == s.totalWeight

(***************************************************************************)
(* The state machine: New, then any sequence of calls.                     *)
(*                                                                         *)
(* supplied, op and ret are history variables: the names callers have      *)
(* handed to New and Add, the last call with its arguments (and, for Add   *)
(* and Remove, whether the name was in the weight table when it was made,  *)
(* for New and Add the identifiers handed to the ring, for Remove those    *)
(* handed to the ring's Remove), and what the last call returned.          *)
(*                                                                         *)
(* A Go map is a reference.  shared tells whether the map the caller holds *)
(* from GetWeights is the weight table itself, so that what the caller     *)
(* writes into it is written into the table.                               *)
(*                                                                         *)
(* call is the Add or Remove a second thread is in the middle of, with its *)
(* locals; it is Idle wherever calls run one after the other.              *)
(***************************************************************************)
Void == [kind |-> "void"]

\* no Add or Remove is under way
Idle == [pc |-> "idle"]

Init ==
    \E members \in MemberLists :
        \E s \in New(members) :
            /\ ring = s.ring
            /\ weights = s.weights
            /\ totalWeight = s.totalWeight
            /\ supplied = { members[k].name : k \in 1 .. Len(members) }
            /\ op = [kind |-> "New", members |-> members,
                     added |-> [i \in 1 .. Len(NewLocals(members).baseMembers) |->
                                  String(NewLocals(members).baseMembers[i])]]
            /\ ret = Void
            /\ shared = FALSE
            /\ call = Idle

Add(member) ==
    LET run == AddRun(c, member)
    IN  /\ ring' = run.c.ring
        /\ weights' = run.c.weights
        /\ totalWeight' = run.c.totalWeight
        /\ supplied' = supplied \cup { member.name }
        /\ op' = [kind |-> "Add", member |-> member,
                  existed |-> member.name \in DOMAIN weights, added |-> run.added]
        /\ ret' = Void
        /\ UNCHANGED <<shared, call>>

Remove(name) ==
    LET s == RemoveFrom(c, name)
    IN  /\ ring' = s.ring
        /\ weights' = s.weights
        /\ totalWeight' = s.totalWeight
        /\ op' = [kind |-> "Remove", name |-> name, existed |-> name \in DOMAIN weights,
                  removed |-> RemoveRun(c, name).removed]
        /\ ret' = Void
        /\ UNCHANGED <<supplied, shared, call>>

\* a LocateKey that looks the located name up in the weight table with a read
\* that inserts the zero value when the name has no entry
LocateKeyInsertingRead(key) ==
    LET found == LocateKeyIn(c, key)
    IN  /\ op' = [kind |-> "LocateKey", key |-> key]
        /\ ret' = found
        /\ weights' = IF found # Nil /\ found.name \notin DOMAIN weights
                      THEN MapSet(weights, found.name, 0)
                      ELSE weights
        /\ UNCHANGED <<ring, totalWeight, supplied, shared, call>>

LocateKey(key) ==
    /\ op' = [kind |-> "LocateKey", key |-> key]
    /\ ret' = LocateKeyIn(c, key)
    /\ UNCHANGED <<ring, weights, totalWeight, supplied, shared, call>>

\* a GetWeights that returns c.weights itself
GetWeightsReturningTable ==
    /\ op' = [kind |-> "GetWeights"]
    /\ ret' = [kind |-> "weights", weights |-> weights]
    /\ shared' = TRUE
    /\ UNCHANGED <<ring, weights, totalWeight, supplied, call>>

\* result := make(map[string]int) is a map of its own
GetWeights ==
    /\ op' = [kind |-> "GetWeights"]
    /\ ret' = [kind |-> "weights", weights |-> GetWeightsOf(c)]
    /\ shared' = FALSE
    /\ UNCHANGED <<ring, weights, totalWeight, supplied, call>>

GetTotalWeight ==
    /\ op' = [kind |-> "GetTotalWeight"]
    /\ ret' = [kind |-> "int", value |-> GetTotalWeightOf(c)]
    /\ UNCHANGED <<ring, weights, totalWeight, supplied, shared, call>>

\* what a caller writes into a map: m[name] = 0 (an insert or an overwrite) or
\* delete(m, name)
MapWrites == { "set", "delete" }

\* The caller writes into the map GetWeights has just returned.
MutateReturned(how, name) ==
    LET written == IF how = "set" THEN MapSet(ret.weights, name, 0)
                   ELSE MapDelete(ret.weights, name)
    IN  /\ op.kind = "GetWeights"
        /\ written # ret.weights
        /\ op' = [kind |-> "MutateReturned", how |-> how, name |-> name]
        /\ ret' = [kind |-> "weights", weights |-> written]
        /\ weights' = IF shared THEN written ELSE weights
        /\ UNCHANGED <<ring, totalWeight, supplied, shared, call>>

Next ==
    \/ \E member \in Members : Add(member)
    \/ \E name \in Names : Remove(name)
    \/ \E key \in Keys : LocateKey(key)
    \/ GetWeights
    \/ GetTotalWeight
    \/ \E how \in MapWrites, name \in Names : MutateReturned(how, name)

Spec == Init /\ [][Next]_vars

(***************************************************************************)
(* Two threads on one Consistent.  Consistent has no lock of its own       *)
(* (lines 16-20): one thread runs Add and Remove statement by statement,   *)
(* each call to the embedded ring being one step, and another thread calls *)
(* LocateKey, GetWeights and GetTotalWeight between any two of them.  The  *)
(* unsynchronised map accesses are a data race; taking the statements one  *)
(* at a time is one of the outcomes the build can produce.                 *)
(***************************************************************************)
Running == [kind |-> "Running"]

\* the caller enters Add (lines 62-66): the effective weight is a local
StartAdd(member) ==
    /\ call = Idle
    /\ call' = [pc |-> "add_check", kind |-> "Add", name |-> member.name,
                weight |-> EffectiveWeight(member.weight), stored |-> 0, i |-> 0,
                inner |-> FALSE, pre |-> c, post |-> AddTo(c, member)]
    /\ supplied' = supplied \cup { member.name }
    /\ op' = Running
    /\ ret' = Void
    /\ UNCHANGED <<ring, weights, totalWeight, shared>>

\* the caller enters Remove (line 88)
StartRemove(name) ==
    /\ call = Idle
    /\ call' = [pc |-> "remove_check", kind |-> "Remove", name |-> name,
                weight |-> 0, stored |-> 0, i |-> 0,
                inner |-> FALSE, pre |-> c, post |-> RemoveFrom(c, name)]
    /\ op' = Running
    /\ ret' = Void
    /\ UNCHANGED <<ring, weights, totalWeight, supplied, shared>>

\* if _, exists := c.weights[member.String()]; exists { c.Remove(...) } (lines 69-71)
AddCheck ==
    /\ call.pc = "add_check"
    /\ call' = IF call.name \in DOMAIN weights
               THEN [call EXCEPT !.pc = "remove_check", !.inner = TRUE]
               ELSE [call EXCEPT !.pc = "add_loop", !.i = 0]
    /\ op' = Running
    /\ ret' = Void
    /\ UNCHANGED <<ring, weights, totalWeight, supplied, shared>>

\* where Remove returns to
Returned(k) ==
    IF k.inner THEN [k EXCEPT !.pc = "add_loop", !.i = 0, !.inner = FALSE]
    ELSE Idle

\* weight, exists := c.weights[name]; if !exists { return } (lines 89-92)
RemoveCheck ==
    /\ call.pc = "remove_check"
    /\ call' = IF call.name \in DOMAIN weights
               THEN [call EXCEPT !.pc = "remove_loop", !.stored = weights[call.name],
                                 !.i = 0]
               ELSE Returned(call)
    /\ op' = Running
    /\ ret' = Void
    /\ UNCHANGED <<ring, weights, totalWeight, supplied, shared>>

\* one turn of the loop of lines 95-101, or leaving it
RemoveStep ==
    /\ call.pc = "remove_loop"
    /\ IF call.i < call.stored
       THEN LET virtualName == IF call.stored > 1 THEN Sprintf(call.name, call.i)
                               ELSE call.name
            IN  /\ ring' = RingRemove(ring, virtualName)
                /\ call' = [call EXCEPT !.i = call.i + 1]
       ELSE /\ call' = [call EXCEPT !.pc = "remove_delete"]
            /\ UNCHANGED ring
    /\ op' = Running
    /\ ret' = Void
    /\ UNCHANGED <<weights, totalWeight, supplied, shared>>

\* delete(c.weights, name) (line 103)
RemoveDelete ==
    /\ call.pc = "remove_delete"
    /\ weights' = MapDelete(weights, call.name)
    /\ call' = [call EXCEPT !.pc = "remove_total"]
    /\ op' = Running
    /\ ret' = Void
    /\ UNCHANGED <<ring, totalWeight, supplied, shared>>

\* c.totalWeight -= weight (line 104), and Remove returns
RemoveTotal ==
    /\ call.pc = "remove_total"
    /\ totalWeight' = totalWeight - call.stored
    /\ call' = Returned(call)
    /\ op' = Running
    /\ ret' = Void
    /\ UNCHANGED <<ring, weights, supplied, shared>>

\* one turn of the loop of lines 74-81, or leaving it
AddStep ==
    /\ call.pc = "add_loop"
    /\ IF call.i < call.weight
       THEN /\ ring' = RingAdd(ring, weightedMember(call.name, call.i, call.weight))
            /\ call' = [call EXCEPT !.i = call.i + 1]
       ELSE /\ call' = [call EXCEPT !.pc = "add_store"]
            /\ UNCHANGED ring
    /\ op' = Running
    /\ ret' = Void
    /\ UNCHANGED <<weights, totalWeight, supplied, shared>>

\* c.weights[member.String()] = weight (line 83)
AddStore ==
    /\ call.pc = "add_store"
    /\ weights' = MapSet(weights, call.name, call.weight)
    /\ call' = [call EXCEPT !.pc = "add_total"]
    /\ op' = Running
    /\ ret' = Void
    /\ UNCHANGED <<ring, totalWeight, supplied, shared>>

\* c.totalWeight += weight (line 84), and Add returns
AddTotal ==
    /\ call.pc = "add_total"
    /\ totalWeight' = totalWeight + call.weight
    /\ call' = Idle
    /\ op' = Running
    /\ ret' = Void
    /\ UNCHANGED <<ring, weights, supplied, shared>>

\* New of an empty list, the members arriving by Add
InitThreads == Init /\ op.members = <<>>

NextThreads ==
    \/ \E member \in Members : StartAdd(member)
    \/ \E name \in Names : StartRemove(name)
    \/ AddCheck
    \/ RemoveCheck
    \/ RemoveStep
    \/ RemoveDelete
    \/ RemoveTotal
    \/ AddStep
    \/ AddStore
    \/ AddTotal
    \/ \E key \in Keys : LocateKey(key)
    \/ GetWeights
    \/ GetTotalWeight

SpecThreads == InitThreads /\ [][NextThreads]_vars

(***************************************************************************)
(* What the properties below speak of.                                     *)
(***************************************************************************)
NameA == <<"A">>
NameB == <<"B">>
NameB0 == <<"B", "#", "0">>

\* the sum of the values of a map
RECURSIVE SumMap(_)
SumMap(m) ==
    IF DOMAIN m = {} THEN 0
    ELSE LET k == CHOOSE x \in DOMAIN m : TRUE
         IN  m[k] + SumMap(MapDelete(m, k))

\* the identifiers held in ring r that belong to (map back to) name
IdsOf(r, name) == { id \in DOMAIN r : r[id] = name }

\* the effective weight of a supplied weight
ClaimedWeight(w) == IF w > 0 THEN w ELSE 1

\* the identifiers of a member of effective weight w: the bare name for w = 1,
\* name#0 .. name#(w-1) for w > 1
ClaimedIds(name, w) ==
    IF w = 1 THEN { name } ELSE { Sprintf(name, i) : i \in 0 .. (w - 1) }

\* what a caller can observe of an instance: table, total, and the ring's
\* identifiers with the member each maps back to
Observable(s) == <<s.weights, s.totalWeight, s.ring>>

\* the same without the mapping back: table, total and identifier set
Identifiers(s) == <<s.weights, s.totalWeight, DOMAIN s.ring>>

(***************************************************************************)
(* C1: in every state reachable by New and then Add and Remove, for any    *)
(* member list given to New (lists repeating a name included), what        *)
(* GetTotalWeight returns is the sum of the values of what GetWeights      *)
(* returns.                                                                *)
(***************************************************************************)
C1_TotalWeightIsSumOfWeights ==
    GetTotalWeightOf(c) = SumMap(GetWeightsOf(c))

(***************************************************************************)
(* C2: in every reachable state and for every member name, the number of   *)
(* identifiers in the ring that belong to the name is its entry of the     *)
(* weight table, and zero when the name has no entry.                      *)
(***************************************************************************)
C2_RingCountIsTableWeight ==
    \A name \in Names :
        Cardinality(IdsOf(ring, name)) =
            IF name \in DOMAIN weights THEN weights[name] ELSE 0

(***************************************************************************)
(* C3: replace semantics.  An Add of a name that is in the weight table    *)
(* with weight w1, with new effective weight w2, leaves exactly w2         *)
(* identifiers of that name in the ring and none that only w1 generated,   *)
(* sets the table entry to w2 and changes the total by w2 - w1.            *)
(***************************************************************************)
C3_AddReplaces ==
    [][ (op'.kind = "Add" /\ op'.member.name \in DOMAIN weights) =>
            LET name == op'.member.name
                w1   == weights[name]
                w2   == ClaimedWeight(op'.member.weight)
            IN  /\ Cardinality(IdsOf(ring', name)) = w2
                /\ DOMAIN ring' \cap (ClaimedIds(name, w1) \ ClaimedIds(name, w2)) = {}
                /\ weights'[name] = w2
                /\ totalWeight' = totalWeight + (w2 - w1) ]_vars

(***************************************************************************)
(* C4: LocateKey returns nil or a member whose name is a name some caller  *)
(* supplied to New or Add, never a generated name#index identifier that no *)
(* caller supplied.                                                        *)
(***************************************************************************)
C4_LocateKeyReturnsSuppliedName ==
    op.kind = "LocateKey" =>
        \/ ret = Nil
        \/ ret.kind = "member" /\ ret.name \in supplied

\* LocateKey has answered from a generated identifier that no caller supplied
C4_Witness ==
    /\ op.kind = "LocateKey"
    /\ ret.kind = "member"
    /\ RingLocateKey(ring, op.key).id \notin supplied
    /\ RingLocateKey(ring, op.key).id # ret.name

(***************************************************************************)
(* C5: Remove of a name that is not in the weight table changes nothing:   *)
(* the weight table, the total and the ring stay as they were.             *)
(***************************************************************************)
C5_RemoveUnknownIsNoOp ==
    [][ (op'.kind = "Remove" /\ op'.name \notin DOMAIN weights) =>
            UNCHANGED <<ring, weights, totalWeight>> ]_vars

\* Remove of a name that has no entry, on a ring that holds only A:1 and B:3
C5_Witness ==
    /\ op.kind = "Remove"
    /\ ~op.existed
    /\ weights = (NameA :> 1) @@ (NameB :> 3)
    /\ DOMAIN ring = { NameA, Sprintf(NameB, 0), Sprintf(NameB, 1), Sprintf(NameB, 2) }

(***************************************************************************)
(* C6: Remove is idempotent.  From every reachable state and for every     *)
(* name, the weight table, total and identifier set after Remove(name);    *)
(* Remove(name) are those after one Remove(name).                          *)
(***************************************************************************)
C6_RemoveIdempotent ==
    \A name \in Names :
        Identifiers(RemoveFrom(RemoveFrom(c, name), name)) =
            Identifiers(RemoveFrom(c, name))

\* a Remove has just taken a member of weight > 1 off the ring, and some
\* member is left whose removal, once or twice, changes the state
C6_Witness ==
    /\ op.kind = "Remove"
    /\ op.existed
    /\ \E name \in DOMAIN weights :
          /\ weights[name] > 1
          /\ Identifiers(RemoveFrom(c, name)) # Identifiers(c)

(***************************************************************************)
(* C7: Add is idempotent.  From every reachable state and for every member *)
(* m, the weight table, total, identifier set and the member each          *)
(* identifier maps back to after Add(m); Add(m) are those after one        *)
(* Add(m).                                                                 *)
(***************************************************************************)
C7_AddIdempotent ==
    \A m \in Members :
        Observable(AddTo(AddTo(c, m), m)) = Observable(AddTo(c, m))

(***************************************************************************)
(* C8: every weight in the weight table is >= 1.  New and Add store the    *)
(* supplied weight when it is > 0 and 1 when it is <= 0, and a member      *)
(* whose weight was coerced gets exactly one identifier, its bare name.    *)
(***************************************************************************)
\* the place in New's list of virtual members where member k's begin
RECURSIVE ClaimedOffset(_, _)
ClaimedOffset(members, k) ==
    IF k = 1 THEN 0
    ELSE ClaimedOffset(members, k - 1) + ClaimedWeight(members[k - 1].weight)

C8_WeightsAtLeastOne ==
    /\ \A name \in DOMAIN weights : weights[name] >= 1
    /\ op.kind = "Add" =>
          /\ weights[op.member.name] = ClaimedWeight(op.member.weight)
          /\ op.member.weight <= 0 =>
                /\ op.added = << op.member.name >>
                /\ op.member.name \in DOMAIN ring
    /\ op.kind = "New" =>
          /\ Len(op.added) = ClaimedOffset(op.members, Len(op.members) + 1)
          /\ \A k \in 1 .. Len(op.members) :
                LET m == op.members[k]
                IN  /\ (\A j \in (k + 1) .. Len(op.members) : op.members[j].name # m.name)
                        => weights[m.name] = ClaimedWeight(m.weight)
                    /\ m.weight <= 0 =>
                          /\ m.name \in DOMAIN ring
                          /\ SubSeq(op.added, ClaimedOffset(op.members, k) + 1,
                                    ClaimedOffset(op.members, k + 1)) = << m.name >>

\* an Add with a supplied weight <= 0 has put the bare name on the ring
C8_Witness ==
    /\ op.kind = "Add"
    /\ op.member.weight <= 0
    /\ weights[op.member.name] = 1
    /\ op.member.name \in DOMAIN ring
    /\ ring[op.member.name] = op.member.name

(***************************************************************************)
(* C9: after New(members) the ring's identifiers are exactly those         *)
(* generated for every input member and its effective weight: the bare     *)
(* name for weight 1, name#0 .. name#(w-1) for w > 1.  A of weight 1 and B *)
(* of weight 3 give exactly A, B#0, B#1, B#2, the table A:1, B:3 and the   *)
(* total 4.                                                                *)
(***************************************************************************)
C9_NewLoadsEveryIdentifier ==
    op.kind = "New" =>
        /\ DOMAIN ring =
              UNION { ClaimedIds(op.members[k].name, ClaimedWeight(op.members[k].weight)) :
                        k \in 1 .. Len(op.members) }
        /\ op.members = << [name |-> NameA, weight |-> 1], [name |-> NameB, weight |-> 3] >> =>
              /\ DOMAIN ring = { <<"A">>, <<"B", "#", "0">>, <<"B", "#", "1">>, <<"B", "#", "2">> }
              /\ weights = (NameA :> 1) @@ (NameB :> 3)
              /\ totalWeight = 4

\* New has been handed A of weight 1 and B of weight 3
C9_Witness ==
    /\ op.kind = "New"
    /\ op.members = << [name |-> NameA, weight |-> 1], [name |-> NameB, weight |-> 3] >>
    /\ Cardinality(DOMAIN ring) = 4

(***************************************************************************)
(* C10: LocateKey returns nil exactly when the ring holds no identifier:   *)
(* always on an instance built from an empty list or whose ring Remove has *)
(* emptied, never once a member has been added.                            *)
(***************************************************************************)
C10_NilIffRingEmpty ==
    /\ \A key \in Keys : (LocateKeyIn(c, key) = Nil) <=> (DOMAIN ring = {})
    /\ op.kind = "LocateKey" => ((ret = Nil) <=> (DOMAIN ring = {}))
    /\ (op.kind = "New" /\ op.members = <<>>) => DOMAIN ring = {}
    /\ op.kind = "Add" => \A key \in Keys : LocateKeyIn(c, key) # Nil

\* LocateKey has returned nil on a ring that held members until Remove emptied it
C10_Witness ==
    /\ op.kind = "LocateKey"
    /\ ret = Nil
    /\ supplied # {}

(***************************************************************************)
(* C11: LocateKey never mutates state: weight table, total and ring are    *)
(* after the call what they were before it, and a second LocateKey of the  *)
(* same key, with no call in between, returns the same member.             *)
(***************************************************************************)
C11_LocateKeyReadsOnly ==
    [][ op'.kind = "LocateKey" =>
            /\ UNCHANGED <<ring, weights, totalWeight>>
            /\ (op.kind = "LocateKey" /\ op.key = op'.key) => ret' = ret ]_vars

\* LocateKey has found a member on a ring that holds several identifiers
C11_Witness ==
    /\ op.kind = "LocateKey"
    /\ ret.kind = "member"
    /\ Cardinality(DOMAIN ring) > 1
    /\ weights # EmptyMap

(***************************************************************************)
(* C12: GetWeights returns a defensive copy.  The map returned has the     *)
(* entries of the weight table at the call, and whatever the caller then   *)
(* writes into it (insert, overwrite, delete) leaves the weight table, the *)
(* total, and what GetWeights, Add and Remove do next, as they were.       *)
(***************************************************************************)
C12_GetWeightsReturnsCopy ==
    [][ /\ op'.kind = "GetWeights" =>
              /\ ret'.weights = weights
              /\ UNCHANGED <<ring, weights, totalWeight>>
        /\ op'.kind = "MutateReturned" =>
              /\ UNCHANGED <<ring, weights, totalWeight>>
              /\ GetWeightsOf(c') = GetWeightsOf(c)
              /\ \A m \in Members : AddTo(c', m) = AddTo(c, m)
              /\ \A name \in Names : RemoveFrom(c', name) = RemoveFrom(c, name) ]_vars

\* the caller has overwritten an entry of the returned map, which now differs
\* from the weight table
C12_Witness ==
    /\ op.kind = "MutateReturned"
    /\ op.how = "set"
    /\ op.name \in DOMAIN weights
    /\ ret.weights[op.name] # weights[op.name]
    /\ Cardinality(DOMAIN weights) > 1

GeneratedIds(name, w) == { String(weightedMember(name, i, w)) : i \in 0 .. (w - 1) }

C14_NoCollidingIdentifiers ==
    /\ \A n1 \in DOMAIN weights : \A n2 \in DOMAIN weights \ { n1 } :
          GeneratedIds(n1, weights[n1]) \cap GeneratedIds(n2, weights[n2]) = {}
    /\ \A n \in DOMAIN weights :
          Cardinality(GeneratedIds(n, weights[n])) = weights[n]

(***************************************************************************)
(* C16: every member LocateKey returns has a name that is a key of the     *)
(* weight table at that moment: no key is routed to a member that was      *)
(* removed or that GetWeights does not list.                               *)
(***************************************************************************)
C16_LocatedMemberIsInTable ==
    (op.kind = "LocateKey" /\ ret.kind = "member") => ret.name \in DOMAIN weights

(***************************************************************************)
(* C17: Add(m) and Remove(n) affect only the member named: every other     *)
(* name of the weight table keeps its weight, its identifiers stay on the  *)
(* ring and still map back to it, and the total changes by the weight      *)
(* difference of the member named.                                         *)
(***************************************************************************)
\* the weight of a name in a table, 0 when it has no entry
WeightIn(w, name) == IF name \in DOMAIN w THEN w[name] ELSE 0

C17_OnlyTheNamedMemberChanges ==
    [][ op'.kind \in { "Add", "Remove" } =>
            LET named == IF op'.kind = "Add" THEN op'.member.name ELSE op'.name
            IN  /\ \A k \in DOMAIN weights \ { named } :
                      /\ k \in DOMAIN weights'
                      /\ weights'[k] = weights[k]
                      /\ \A id \in IdsOf(ring, k) :
                            id \in DOMAIN ring' /\ ring'[id] = k
                /\ totalWeight' - totalWeight =
                      WeightIn(weights', named) - WeightIn(weights, named) ]_vars

(***************************************************************************)
(* C15: Add and Remove are atomic with respect to other operations: a      *)
(* LocateKey, GetWeights or GetTotalWeight that another thread makes       *)
(* between the steps of an Add or Remove never observes an intermediate    *)
(* state, only the state before the call or the state after it.            *)
(***************************************************************************)
Observers == { "LocateKey", "GetWeights", "GetTotalWeight" }

C15_NoIntermediateStateObserved ==
    (call.pc # "idle" /\ op.kind \in Observers) =>
        Observable(c) \in { Observable(call.pre), Observable(call.post) }

====
